---- MODULE Spec2Model ----
(***************************************************************************)
(* Model of async_zmq.py: the AsyncPoller singleton (registry, zmq.Poller, *)
(* dispatch task _poll_sockets) and the AIOZMQSocket adapter (outbound     *)
(* queue, wake channel, handle_event).                                     *)
(*                                                                         *)
(* The program state is kept in separate variables; the methods of the     *)
(* source are operators from a state record to a state record, so that a   *)
(* user callback invoked in the middle of handle_event can itself call     *)
(* register / unregister / close, as it can in the source.                 *)
(***************************************************************************)
EXTENDS Integers, Sequences, FiniteSets, TLC

\* ---------------------------------------------------------------- bounds
MaxTasks == 2      \* task objects that can be pending at the same time
MaxSends == 2      \* send() calls per adapter
MaxInbox == 1      \* messages buffered on a real socket by the network
MaxOrphans == 1    \* abandoned worker polls still executing
MaxArrivals == 2   \* messages delivered in a behaviour with finitely many arrivals

Adapters == {"A", "B"}
TaskIds == 1..MaxTasks
NoTask == 0

\* ------------------------------------------------------- python values
\* A bytes frame has depth 0, a list of frames depth 1, a list holding one
\* list of frames depth 2.  parts are the frames at the leaves.
BytesMsg == [depth |-> 0, parts |-> <<"a">>]
PartsMsg == [depth |-> 1, parts |-> <<"b", "c">>]
Msgs == {BytesMsg, PartsMsg}
NetMsgs == {[depth |-> 1, parts |-> <<"n">>]}

\* [msg] at line 288: a one-element list around the caller's value
ListOf(msg) == [depth |-> msg.depth + 1, parts |-> msg.parts]

\* ------------------------------------------------------------- sockets
NoSocket == <<"none", "none">>
ZmqSock(a) == <<"zmq", a>>
WakeSock(a) == <<"wake", a>>
Handles == {ZmqSock(a) : a \in Adapters} \cup {WakeSock(a) : a \in Adapters}

POLLIN == "POLLIN"
POLLOUT == "POLLOUT"

NoExc == "none"

VARIABLES
    sockets,            \* AsyncPoller._sockets: handle -> adapter
    pollset,            \* AsyncPoller._poller (zmq.Poller): handle -> flags
    poll_future,        \* AsyncPoller._poll_future: task id or NoTask
    tasks,              \* the asyncio tasks running _poll_sockets
    orphans,            \* wait sets of the worker polls whose task was cancelled
    life,               \* adapter: "unborn", "open" or "closed" (_socket is None)
    on_recv_callback,   \* adapter._on_recv_callback is not None
    on_send_callback,   \* adapter._on_send_callback is not None
    send_queue,         \* adapter._send_queue
    inbox,              \* messages the real socket can receive
    wake_buf,           \* notifications pending on the wake channel
    submitted,          \* history: values given to send(), in call order
    wire,               \* history: values handed to send_multipart, in order
    hev,                \* history: what the last handle_event call did
    last_call,          \* history: the last call made from outside the loop
    arrivals            \* history: messages delivered by ArriveCounted

vars == <<sockets, pollset, poll_future, tasks, orphans, life, on_recv_callback,
          on_send_callback, send_queue, inbox, wake_buf, submitted, wire, hev,
          last_call, arrivals>>

\* --------------------------------------------------------- state record
Cur ==
    [sockets |-> sockets, pollset |-> pollset, poll_future |-> poll_future,
     tasks |-> tasks, orphans |-> orphans, life |-> life,
     on_recv_callback |-> on_recv_callback, on_send_callback |-> on_send_callback,
     send_queue |-> send_queue, inbox |-> inbox, wake_buf |-> wake_buf,
     submitted |-> submitted, wire |-> wire, hev |-> hev,
     exc |-> NoExc, overflow |-> FALSE]

\* The variables take the values of the fields of state record s
Store(s) ==
    \E r \in {s} :
        /\ ~r.overflow
        /\ sockets' = r.sockets
        /\ pollset' = r.pollset
        /\ poll_future' = r.poll_future
        /\ tasks' = r.tasks
        /\ orphans' = r.orphans
        /\ life' = r.life
        /\ on_recv_callback' = r.on_recv_callback
        /\ on_send_callback' = r.on_send_callback
        /\ send_queue' = r.send_queue
        /\ inbox' = r.inbox
        /\ wake_buf' = r.wake_buf
        /\ submitted' = r.submitted
        /\ wire' = r.wire
        /\ hev' = r.hev

Raise(s, e) == [s EXCEPT !.exc = e]

\* Let(v, LAMBDA x : e) is e with x standing for the value of v, computed once
Let(v, body(_)) == CHOOSE y \in {body(x) : x \in {v}} : TRUE

Restrict(f, D) == [x \in D |-> f[x]]

EmptyFn == [x \in {} |-> x]

NoEvents == {}
IdleTask == [state |-> "none", events |-> NoEvents, waitset |-> EmptyFn, must_cancel |-> FALSE]

\* ------------------------------------------------------------ adapter
\* AIOZMQSocket.zmq_socket / wake_socket: None once the adapter is closed
zmq_socket(s, a) == IF s.life[a] = "open" THEN ZmqSock(a) ELSE NoSocket
wake_socket(s, a) == IF s.life[a] = "open" THEN WakeSock(a) ELSE NoSocket

\* a flag that is set whatever the queue holds
always_sending(s, a) == TRUE

\* AIOZMQSocket.is_sending
is_sending(s, a) == Len(s.send_queue[a]) > 0

\* ------------------------------------------------------- asyncio tasks
\* A task is pending while it is scheduled, suspended in the blocking wait
\* (waiting: the worker poll is executing; ready: it has returned) or running;
\* a finished task (returned, cancelled or failed) has state "none".
Pending(s, t) == s.tasks[t].state \in {"scheduled", "waiting", "ready", "running"}

\* asyncio.async(self._poll_sockets(), loop=self._loop), assigned to
\* self._poll_future: a new task object, scheduled, not yet started.
StartPolling(s) ==
    LET free == {t \in TaskIds : ~Pending(s, t)} IN
    IF free = {} THEN [s EXCEPT !.overflow = TRUE]
    ELSE LET t == CHOOSE x \in free : \A y \in free : x <= y IN
         [s EXCEPT !.tasks[t] = [IdleTask EXCEPT !.state = "scheduled"],
                   !.poll_future = t]

\* Task.cancel().  A task suspended at a yield never runs again (the
\* CancelledError is thrown at the yield of line 117, outside the try); the
\* worker-side poll of a waiting task is already executing and is not
\* interrupted.  A task that is running (cancel called from a callback it
\* invoked) is only marked: it has no further yield, so it runs its pass to
\* the end.  Cancelling a finished task does nothing.
Cancel(s, t) ==
    LET st == s.tasks[t].state IN
    CASE st = "scheduled" -> [s EXCEPT !.tasks[t] = IdleTask]
      [] st = "ready" -> [s EXCEPT !.tasks[t] = IdleTask]
      [] st = "waiting" ->
            IF Len(s.orphans) >= MaxOrphans THEN [s EXCEPT !.overflow = TRUE]
            ELSE [s EXCEPT !.tasks[t] = IdleTask,
                           !.orphans = Append(@, DOMAIN s.tasks[t].waitset)]
      [] st = "running" -> [s EXCEPT !.tasks[t].must_cancel = TRUE]
      [] OTHER -> s

\* ------------------------------------------------------------- poller
\* a registration that enters the real socket only
register_real_only(s, a) ==
    Let([s EXCEPT !.sockets = (zmq_socket(s, a) :> a) @@ @], LAMBDA s1 :
    Let(IF s1.poll_future # NoTask THEN Cancel(s1, s1.poll_future) ELSE s1,
        LAMBDA s2 : StartPolling(s2)))

\* AsyncPoller.register
\* lines 56-64: add both sockets, cancel the running loop, start a new one
register_new(s, a) ==
    Let([s EXCEPT !.sockets = (zmq_socket(s, a) :> a) @@ (wake_socket(s, a) :> a) @@ @],
        LAMBDA s1 :
    Let(IF s1.poll_future # NoTask THEN Cancel(s1, s1.poll_future) ELSE s1,
        LAMBDA s2 : StartPolling(s2)))

\* register without the early return of lines 52-54
register_always(s, a) == register_new(s, a)

\* lines 46-64
register(s, a) ==
    IF zmq_socket(s, a) \in DOMAIN s.sockets THEN s ELSE register_new(s, a)

\* AsyncPoller.unregister.  zmq.Poller.unregister raises KeyError for a
\* socket the zmq.Poller does not hold.
\* lines 75-86
unregister_registered(s, a) ==
    LET zs == zmq_socket(s, a)
        ws == wake_socket(s, a)
    IN
    IF zs \notin DOMAIN s.pollset THEN Raise(s, "KeyError")
    ELSE IF ws \notin DOMAIN s.pollset
         THEN Raise([s EXCEPT !.pollset = Restrict(@, DOMAIN @ \ {zs})], "KeyError")
    ELSE Let([s EXCEPT !.pollset = Restrict(@, DOMAIN @ \ {zs, ws}),
                       !.sockets = Restrict(@, DOMAIN @ \ {zs, ws})],
             LAMBDA s1 :
         Let(IF s1.poll_future # NoTask
             THEN [Cancel(s1, s1.poll_future) EXCEPT !.poll_future = NoTask]
             ELSE s1,
             LAMBDA s2 :
                IF Cardinality(DOMAIN s2.sockets) > 0 THEN StartPolling(s2) ELSE s2))

\* unregister without the error of lines 72-73
unregister_silent(s, a) ==
    IF zmq_socket(s, a) \notin DOMAIN s.sockets THEN s ELSE unregister_registered(s, a)

\* lines 66-86
unregister(s, a) ==
    IF zmq_socket(s, a) \notin DOMAIN s.sockets THEN Raise(s, "AsyncZMQError")
    ELSE unregister_registered(s, a)

\* flags that never ask for writability
get_poll_flag_readable(s, socket, a) == {POLLIN}

\* flags computed without the comparison of line 107
get_poll_flag_any(s, socket, a) ==
    {POLLIN} \cup (IF is_sending(s, a) THEN {POLLOUT} ELSE {})

\* get_poll_flag in _poll_sockets
get_poll_flag(s, socket, a) ==
    {POLLIN} \cup (IF zmq_socket(s, a) = socket /\ is_sending(s, a) THEN {POLLOUT} ELSE {})

\* reregister_sockets in _poll_sockets: zmq.Poller.register replaces the
\* flags of a socket it holds and adds one it does not hold.
reregister_sockets(s) ==
    [s EXCEPT !.pollset =
        [h \in DOMAIN s.pollset \cup DOMAIN s.sockets |->
            IF h \in DOMAIN s.sockets THEN get_poll_flag(s, h, s.sockets[h])
            ELSE s.pollset[h]]]

\* ------------------------------------------------- adapter operations
NoHev == [adapter |-> "-", socket |-> NoSocket, event |-> {}, steps |-> <<>>,
          recv_args |-> <<>>, send_args |-> <<>>, handed |-> <<>>, exc |-> NoExc,
          repoll_error |-> FALSE]

Step(s, tag, a) == [s EXCEPT !.hev.steps = Append(@, <<tag, a>>)]

\* AIOZMQSocket.__init__: registers with the poller, no callbacks, empty queue
init(s, a) ==
    Let([s EXCEPT !.life[a] = "open"], LAMBDA s1 :
    Let(register(s1, a), LAMBDA s2 :
        [s2 EXCEPT !.on_recv_callback[a] = FALSE, !.on_send_callback[a] = FALSE,
                   !.send_queue[a] = <<>>]))

\* AIOZMQSocket.send with _wake_up_sender: the append comes first; on a
\* closed adapter _got_send_sock is None and the wake-up raises.
send(s, a, msg) ==
    LET s1 == [s EXCEPT !.send_queue[a] = Append(@, ListOf(msg)),
                        !.submitted[a] = Append(@, msg)]
    IN IF s1.life[a] # "open" THEN Raise(s1, "AttributeError")
       ELSE [s1 EXCEPT !.wake_buf[a] = @ + 1]

\* a close without the test of line 301
close_unguarded(s, a) ==
    Let(unregister(s, a), LAMBDA s1 :
        IF s1.exc # NoExc THEN s1
        ELSE [Step(s1, "close", a) EXCEPT !.life[a] = "closed", !.inbox[a] = <<>>,
                                           !.wake_buf[a] = 0])

\* AIOZMQSocket.close: an error of unregister leaves the adapter as it was
close(s, a) ==
    IF s.life[a] # "open" THEN s
    ELSE Let(unregister(s, a), LAMBDA s1 :
            IF s1.exc # NoExc THEN s1
            ELSE [Step(s1, "close", a) EXCEPT !.life[a] = "closed", !.inbox[a] = <<>>,
                                               !.wake_buf[a] = 0])

\* What a user callback does when it is invoked: return, raise, or call one
\* operation of this module on some adapter.
CbReturn == <<"return", "-">>
CbBehaviours ==
    {CbReturn, <<"raise", "-">>, <<"raise_zmq", "-">>}
    \cup {<<op, b>> : op \in {"close", "create", "register", "unregister"}, b \in Adapters}

CbApplicable(s, cb) ==
    CASE cb[1] = "create" -> s.life[cb[2]] = "unborn"
      [] cb[1] \in {"close", "register", "unregister"} -> s.life[cb[2]] = "open"
      [] OTHER -> TRUE

RunCallback(s, cb) ==
    CASE ~CbApplicable(s, cb) -> s
      [] cb[1] = "raise" -> Raise(s, "Exception")
      [] cb[1] = "raise_zmq" -> Raise(s, "ZMQError")
      [] cb[1] = "close" -> close(s, cb[2])
      [] cb[1] = "create" -> init(s, cb[2])
      [] cb[1] = "register" -> register(s, cb[2])
      [] cb[1] = "unregister" -> unregister(s, cb[2])
      [] OTHER -> s

\* The nondeterminism of one handle_event call: what the two callbacks do and
\* whether the transport fails in recv_multipart / send_multipart.
NoChoice == [rcb |-> CbReturn, scb |-> CbReturn, recv_fault |-> FALSE, send_fault |-> FALSE]

\* AIOZMQSocket._handle_on_recv.  msgs is bound only when recv_multipart
\* returned; with a callback set, line 275 then reads an unbound local.
_handle_on_recv(s, a, ch) ==
    LET got == Len(s.inbox[a]) > 0 /\ ~ch.recv_fault
        msgs == Head(s.inbox[a])
    IN Let(IF got THEN [Step(s, "recv_ok", a) EXCEPT !.inbox[a] = Tail(@)]
           ELSE IF ch.recv_fault THEN Step(s, "recv_error", a)
           ELSE Step(s, "recv_eagain", a),
           LAMBDA s1 :
       IF s1.on_recv_callback[a]
       THEN IF ~got THEN Raise(s1, "UnboundLocalError")
            ELSE Let([Step(s1, "recv_cb", a) EXCEPT !.hev.recv_args = Append(@, msgs)],
                     LAMBDA s2 : RunCallback(s2, ch.rcb))
       ELSE s1)

\* a transmit that hands the message to the socket a second time
send_multipart_again(s, a, msg, fault) ==
    Let([Step(s, "transmit", a) EXCEPT !.wire[a] = Append(Append(@, msg), msg),
                                       !.hev.handed = Append(Append(@, msg), msg)],
        LAMBDA s1 :
            IF msg.depth # 1 THEN Raise(s1, "TypeError")
            ELSE IF fault THEN Raise(s1, "ZMQError")
            ELSE s1)

\* socket.send_multipart(msg): a part that is not a bytes frame is a TypeError
send_multipart(s, a, msg, fault) ==
    Let([Step(s, "transmit", a) EXCEPT !.wire[a] = Append(@, msg),
                                       !.hev.handed = Append(@, msg)],
        LAMBDA s1 :
            IF msg.depth # 1 THEN Raise(s1, "TypeError")
            ELSE IF fault THEN Raise(s1, "ZMQError")
            ELSE s1)

\* deque.pop(): the newest entry and the rest
pop(q) == <<q[Len(q)], SubSeq(q, 1, Len(q) - 1)>>

\* deque.popleft(): the oldest entry and the rest
popleft(q) == <<Head(q), Tail(q)>>

\* AIOZMQSocket._handle_on_send; popleft of an empty deque is an IndexError
_handle_on_send(s, a, ch) ==
    IF s.send_queue[a] = <<>> THEN Raise(Step(s, "pop_empty", a), "IndexError") ELSE
    LET msg == popleft(s.send_queue[a])[1] IN
    Let([Step(s, "pop", a) EXCEPT !.send_queue[a] = popleft(@)[2]], LAMBDA s1 :
    Let(IF s1.on_send_callback[a]
        THEN Let([Step(s1, "send_cb", a) EXCEPT !.hev.send_args = Append(@, msg)],
                 LAMBDA sc : RunCallback(sc, ch.scb))
        ELSE s1,
        LAMBDA s2 :
    Let(IF s2.exc # NoExc THEN s2
        ELSE IF s2.life[a] # "open" THEN Raise(s2, "AttributeError")
        ELSE send_multipart(s2, a, msg, ch.send_fault),
        LAMBDA s3 :
            IF s3.exc = "ZMQError" THEN [s3 EXCEPT !.exc = NoExc] ELSE s3)))

\* AIOZMQSocket.handle_event
handle_event(s, a, socket, event, ch) ==
    Let([s EXCEPT !.hev = [NoHev EXCEPT !.adapter = a, !.socket = socket,
                                        !.event = event]],
        LAMBDA s0 :
    Let(IF POLLIN \in event /\ socket = zmq_socket(s0, a)
        THEN _handle_on_recv(s0, a, ch) ELSE s0,
        LAMBDA s1 :
    Let(IF s1.exc # NoExc THEN s1
        ELSE IF POLLOUT \in event /\ is_sending(s1, a)
        THEN _handle_on_send(s1, a, ch) ELSE s1,
        LAMBDA s2 :
    Let(IF s2.exc # NoExc THEN s2
        ELSE IF POLLIN \in event /\ socket = wake_socket(s2, a)
        THEN IF s2.wake_buf[a] > 0
             THEN [Step(s2, "drain", a) EXCEPT !.wake_buf[a] = @ - 1]
             ELSE Raise(s2, "ZMQError_EAGAIN")
        ELSE s2,
        LAMBDA s3 : [s3 EXCEPT !.hev.exc = s3.exc]))))

\* ------------------------------------------------------ dispatch loop
\* What the sockets can do right now.  A real socket is taken to be writable
\* whenever it is open; it is readable when a message is buffered; the wake
\* socket is readable when a notification is buffered.
Readiness(s, h) ==
    LET a == h[2] IN
    IF s.life[a] # "open" THEN {}
    ELSE IF h[1] = "zmq"
         THEN {POLLOUT} \cup (IF Len(s.inbox[a]) > 0 THEN {POLLIN} ELSE {})
         ELSE (IF s.wake_buf[a] > 0 THEN {POLLIN} ELSE {})

\* zmq.Poller.poll over a registration set: the (socket, event) pairs whose
\* requested flags are ready.  The order of the list is the order in which
\* the dict of line 112 was iterated, so its head is any element.
poll(s, registered) ==
    {<<h, registered[h] \cap Readiness(s, h)>> :
        h \in {x \in DOMAIN registered : registered[x] \cap Readiness(s, x) # {}}}

\* a restart that happens only after a pass that ended without an exception
restart_unless_error(s, t) ==
    Let([s EXCEPT !.tasks[t] = IdleTask, !.exc = NoExc], LAMBDA s1 :
        IF Cardinality(DOMAIN s1.sockets) > 0 /\ s1.poll_future # NoTask /\ s.exc = NoExc
        THEN StartPolling(s1) ELSE s1)

\* _poll_sockets, lines 137-139: the task ends; it starts a successor when
\* the registry is non-empty and _poll_future is set.
restart_polling(s, t) ==
    Let([s EXCEPT !.tasks[t] = IdleTask, !.exc = NoExc], LAMBDA s1 :
        IF Cardinality(DOMAIN s1.sockets) > 0 /\ s1.poll_future # NoTask
        THEN StartPolling(s1) ELSE s1)

\* self._poller.poll(0) inside the loop; an error is caught at 131-135
repoll(s, t, fault) ==
    IF fault THEN restart_polling([s EXCEPT !.hev.repoll_error = TRUE], t)
    ELSE Let(poll(s, s.pollset), LAMBDA ev :
            IF ev = {} THEN restart_polling(s, t)
            ELSE [s EXCEPT !.tasks[t].events = ev])

\* _poll_sockets, lines 120-135: one iteration of the while loop on
\* events[0] = e, to the end of the coroutine if the loop ends with it.
loop_iteration(s, t, e, ch, fault) ==
    LET socket == e[1]
        event == e[2]
    IN Let([s EXCEPT !.tasks[t].state = "running", !.hev = NoHev], LAMBDA s0 :
       IF socket \notin DOMAIN s0.sockets THEN repoll(s0, t, fault)
       ELSE Let(handle_event(s0, s0.sockets[socket], socket, event, ch), LAMBDA s1 :
                IF s1.exc # NoExc THEN restart_polling(s1, t)
                ELSE Let(reregister_sockets(s1), LAMBDA s2 : repoll(s2, t, fault))))

\* _poll_sockets, lines 115-117 up to the yield: interest flags, then the
\* blocking wait is handed to the executor with the registration set it has now.
begin_polling(s, t) ==
    Let(reregister_sockets(s), LAMBDA s1 :
        [s1 EXCEPT !.tasks[t].state = "waiting", !.tasks[t].waitset = s1.pollset])

\* ---------------------------------------------------------------- Init
NoCall == [op |-> "-", adapter |-> "-", exc |-> NoExc]

Init ==
    /\ sockets = EmptyFn
    /\ pollset = EmptyFn
    /\ poll_future = NoTask
    /\ tasks = [t \in TaskIds |-> IdleTask]
    /\ orphans = <<>>
    /\ arrivals = 0
    /\ life = [a \in Adapters |-> "unborn"]
    /\ on_recv_callback = [a \in Adapters |-> FALSE]
    /\ on_send_callback = [a \in Adapters |-> FALSE]
    /\ send_queue = [a \in Adapters |-> <<>>]
    /\ inbox = [a \in Adapters |-> <<>>]
    /\ wake_buf = [a \in Adapters |-> 0]
    /\ submitted = [a \in Adapters |-> <<>>]
    /\ wire = [a \in Adapters |-> <<>>]
    /\ hev = NoHev
    /\ last_call = NoCall

\* ------------------------------------------------------------- actions
\* The dispatch loop and the application's calls run on one event-loop
\* thread: while a pass of _poll_sockets is running nothing else of that
\* thread runs.
NoPassRunning == \A t \in TaskIds : tasks[t].state # "running"

\* A call made by the application between steps of the event loop
Call(op, a, s) ==
    /\ NoPassRunning
    /\ Store([s EXCEPT !.hev = NoHev])
    /\ last_call' = [op |-> op, adapter |-> a, exc |-> s.exc]
    /\ UNCHANGED arrivals

Quiet(s) ==
    /\ Store([s EXCEPT !.hev = NoHev])
    /\ last_call' = NoCall
    /\ UNCHANGED arrivals

Create(a) ==
    /\ life[a] = "unborn"
    /\ Call("create", a, init(Cur, a))

Register(a) ==
    /\ life[a] = "open"
    /\ Call("register", a, register(Cur, a))

Unregister(a) ==
    /\ life[a] # "unborn"
    /\ Call("unregister", a, unregister(Cur, a))

Close(a) ==
    /\ life[a] # "unborn"
    /\ Call("close", a, close(Cur, a))

\* AIOZMQSocket.on_recv / on_send with a handler or with None
OnRecv(a, handler) ==
    /\ life[a] = "open"
    /\ on_recv_callback[a] # handler
    /\ NoPassRunning
    /\ Quiet([Cur EXCEPT !.on_recv_callback[a] = handler])

OnSend(a, handler) ==
    /\ life[a] = "open"
    /\ on_send_callback[a] # handler
    /\ NoPassRunning
    /\ Quiet([Cur EXCEPT !.on_send_callback[a] = handler])

\* send may be called from any thread, also while a pass is running
Send(a, msg) ==
    /\ life[a] = "open"
    /\ Len(submitted[a]) < MaxSends
    /\ Quiet(send(Cur, a, msg))

\* the network delivers a message to a real socket
Arrive(a, msg) ==
    /\ life[a] = "open"
    /\ Len(inbox[a]) < MaxInbox
    /\ Quiet([Cur EXCEPT !.inbox[a] = Append(@, msg)])

\* the same delivery, counted: for behaviours in which the network delivers
\* finitely many messages
ArriveCounted(a, msg) ==
    /\ life[a] = "open"
    /\ Len(inbox[a]) < MaxInbox
    /\ arrivals < MaxArrivals
    /\ Store([Cur EXCEPT !.inbox[a] = Append(@, msg), !.hev = NoHev])
    /\ last_call' = NoCall
    /\ arrivals' = arrivals + 1

\* first step of a scheduled task
TaskStart(t) ==
    /\ NoPassRunning
    /\ tasks[t].state = "scheduled"
    /\ Quiet(begin_polling(Cur, t))

\* the worker's poll returns (ready sockets, or the timeout with none)
WaitReturn(t) ==
    /\ tasks[t].state = "waiting"
    /\ Quiet([Cur EXCEPT !.tasks[t].state = "ready",
                          !.tasks[t].events = poll(Cur, tasks[t].waitset),
                          !.tasks[t].waitset = EmptyFn])

\* the worker's poll raises: the exception surfaces at line 117, outside the
\* try, and ends the task without running lines 119-139
WaitFail(t) ==
    /\ tasks[t].state = "waiting"
    /\ Store([Cur EXCEPT !.tasks[t] = IdleTask, !.hev = NoHev])
    /\ last_call' = [op |-> "wait_error", adapter |-> "-", exc |-> "ZMQError"]
    /\ UNCHANGED arrivals

\* an abandoned worker poll returns; nobody reads its result
OrphanReturn ==
    /\ Len(orphans) > 0
    /\ Quiet([Cur EXCEPT !.orphans = Tail(@)])

\* The choices that can make a difference for adapter a on event e
Choices(a, e, F, CB) ==
    {[rcb |-> r, scb |-> c, recv_fault |-> rf, send_fault |-> sf] :
        r \in (IF on_recv_callback[a] /\ e[1] = ZmqSock(a) /\ POLLIN \in e[2]
                THEN {cb \in CB : CbApplicable(Cur, cb)} ELSE {CbReturn}),
        c \in (IF on_send_callback[a] /\ POLLOUT \in e[2]
                THEN {cb \in CB : CbApplicable(Cur, cb)} ELSE {CbReturn}),
        rf \in (IF e[1] = ZmqSock(a) /\ POLLIN \in e[2] THEN F ELSE {FALSE}),
        sf \in (IF POLLOUT \in e[2] THEN F ELSE {FALSE})}

\* the task resumes with the wait's result, or continues its pass
LoopStep(t, F, CB) ==
    /\ \/ tasks[t].state = "running"
       \/ tasks[t].state = "ready" /\ NoPassRunning
    /\ IF tasks[t].events = {}
       THEN Quiet(restart_polling(Cur, t))
       ELSE \E e \in tasks[t].events :
            \E ch \in (IF e[1] \in DOMAIN sockets THEN Choices(sockets[e[1]], e, F, CB)
                       ELSE {NoChoice}) :
            \E fault \in F :
                /\ Store(loop_iteration(Cur, t, e, ch, fault))
                /\ last_call' = NoCall
                /\ UNCHANGED arrivals

Next ==
    \/ \E a \in Adapters : Create(a)
    \/ \E a \in Adapters : Register(a)
    \/ \E a \in Adapters : Unregister(a)
    \/ \E a \in Adapters : Close(a)
    \/ \E a \in Adapters, h \in BOOLEAN : OnRecv(a, h)
    \/ \E a \in Adapters, h \in BOOLEAN : OnSend(a, h)
    \/ \E a \in Adapters, m \in Msgs : Send(a, m)
    \/ \E a \in Adapters, m \in NetMsgs : Arrive(a, m)
    \/ \E t \in TaskIds : TaskStart(t)
    \/ \E t \in TaskIds : WaitReturn(t)
    \/ \E t \in TaskIds : WaitFail(t)
    \/ \E t \in TaskIds : LoopStep(t, BOOLEAN, CbBehaviours)
    \/ OrphanReturn

Spec == Init /\ [][Next]_vars

\* Registration and dispatch with two adapters that only receive: nothing is
\* ever queued for sending.
NextPoller ==
    \/ \E a \in Adapters : Create(a)
    \/ \E a \in Adapters : Register(a)
    \/ \E a \in Adapters : Unregister(a)
    \/ \E a \in Adapters : Close(a)
    \/ \E a \in Adapters, h \in BOOLEAN : OnRecv(a, h)
    \/ \E a \in Adapters, m \in NetMsgs : Arrive(a, m)
    \/ \E t \in TaskIds : TaskStart(t)
    \/ \E t \in TaskIds : WaitReturn(t)
    \/ \E t \in TaskIds : WaitFail(t)
    \/ \E t \in TaskIds : LoopStep(t, BOOLEAN, CbBehaviours)
    \/ OrphanReturn

SpecPoller == Init /\ [][NextPoller]_vars

\* One adapter that sends and receives; its callbacks return, raise or close it.
Sender == "A"
SenderCb == {CbReturn, <<"raise", "-">>, <<"raise_zmq", "-">>, <<"close", Sender>>}

NextSend ==
    \/ Create(Sender)
    \/ Register(Sender)
    \/ Unregister(Sender)
    \/ Close(Sender)
    \/ \E h \in BOOLEAN : OnRecv(Sender, h)
    \/ \E h \in BOOLEAN : OnSend(Sender, h)
    \/ \E m \in Msgs : Send(Sender, m)
    \/ \E m \in NetMsgs : Arrive(Sender, m)
    \/ \E t \in TaskIds : TaskStart(t)
    \/ \E t \in TaskIds : WaitReturn(t)
    \/ \E t \in TaskIds : WaitFail(t)
    \/ \E t \in TaskIds : LoopStep(t, BOOLEAN, SenderCb)
    \/ OrphanReturn

SpecSend == Init /\ [][NextSend]_vars

\* Two adapters under fair scheduling: the network delivers finitely many
\* messages, no transport call fails, and the application creates adapters,
\* installs handlers that return or raise, sends single-frame messages and
\* closes adapters.  The event loop runs every scheduled step and a worker
\* poll returns within its timeout.
NoFault == {FALSE}
RaisingCb == {CbReturn, <<"raise", "-">>, <<"raise_zmq", "-">>}

NextFair ==
    \/ \E a \in Adapters : Create(a)
    \/ \E a \in Adapters : Close(a)
    \/ \E a \in Adapters : OnRecv(a, TRUE)
    \/ OnSend(Sender, TRUE)
    \/ Send(Sender, BytesMsg)
    \/ \E a \in Adapters, m \in NetMsgs : ArriveCounted(a, m)
    \/ \E t \in TaskIds : TaskStart(t)
    \/ \E t \in TaskIds : WaitReturn(t)
    \/ \E t \in TaskIds : LoopStep(t, NoFault, RaisingCb)
    \/ OrphanReturn

Fairness ==
    \A t \in TaskIds :
        /\ WF_vars(TaskStart(t))
        /\ WF_vars(WaitReturn(t))
        /\ WF_vars(LoopStep(t, NoFault, RaisingCb))

SpecFair == Init /\ [][NextFair]_vars /\ Fairness

\* Two adapters, the second one constructed by the first one's receive
\* callback; the first one sends single-frame messages.  No transport call
\* fails.
CreatingCb == {CbReturn, <<"create", "B">>}

NextWake ==
    \/ Create(Sender)
    \/ \E a \in Adapters : Close(a)
    \/ OnRecv(Sender, TRUE)
    \/ Send(Sender, BytesMsg)
    \/ \E m \in NetMsgs : Arrive(Sender, m)
    \/ \E t \in TaskIds : TaskStart(t)
    \/ \E t \in TaskIds : WaitReturn(t)
    \/ \E t \in TaskIds : LoopStep(t, NoFault, CreatingCb)
    \/ OrphanReturn

SpecWake == Init /\ [][NextWake]_vars

\* =============================================================== claims
Range(q) == {q[i] : i \in DOMAIN q}

\* u can be obtained from v by deleting entries
IsSubseq(u, v) ==
    \E f \in [DOMAIN u -> DOMAIN v] :
        /\ \A i \in DOMAIN u : u[i] = v[f[i]]
        /\ \A i, j \in DOMAIN u : i < j => f[i] < f[j]

Queued(a) == [i \in DOMAIN submitted[a] |-> ListOf(submitted[a][i])]

Registered(a) == ZmqSock(a) \in DOMAIN sockets

\* C1 as stated: the values handed to send_multipart are, in order, the
\* queue entries of the first messages given to send (a prefix of m1..mn).
C1_WireIsPrefix ==
    \A a \in Adapters :
        /\ Len(wire[a]) <= Len(submitted[a])
        /\ wire[a] = SubSeq(Queued(a), 1, Len(wire[a]))

\* C1 amended: the values handed to send_multipart are a subsequence of the
\* queue entries of m1..mn in submission order: none is handed before an
\* earlier-submitted one and none twice, but a popped message whose send
\* callback raised (or whose adapter was closed by a callback) is skipped.
C1_WireInSubmissionOrder ==
    \A a \in Adapters : IsSubseq(wire[a], Queued(a))

C1_Witness ==
    /\ Len(wire[Sender]) = 2
    /\ wire[Sender][1] # wire[Sender][2]

\* A dispatch task that is going to run a pass (or more of its pass): it is
\* scheduled, suspended in its wait, or running without having been cancelled.
Live(t) ==
    \/ tasks[t].state \in {"scheduled", "waiting", "ready"}
    \/ tasks[t].state = "running" /\ ~tasks[t].must_cancel

\* C2: in every reachable state at most one dispatch-loop task is live.
C2_AtMostOneLiveTask == Cardinality({t \in TaskIds : Live(t)}) <= 1

\* C3: a close() of an open adapter completes without error and leaves the
\* adapter closed and neither of its sockets in the registry.
C3_CloseSucceeds ==
    last_call.op = "close" =>
        /\ last_call.exc = NoExc
        /\ life[last_call.adapter] = "closed"
        /\ ZmqSock(last_call.adapter) \notin DOMAIN sockets
        /\ WakeSock(last_call.adapter) \notin DOMAIN sockets

\* C4: a handle_event whose non-blocking receive found no message invokes no
\* receive callback and raises nothing, with or without a receive callback.
C4_NoDataIsSilent ==
    <<"recv_eagain", hev.adapter>> \in Range(hev.steps) =>
        /\ hev.recv_args = <<>>
        /\ hev.exc = NoExc

\* C5: unregister of an adapter whose real socket is not in the registry
\* raises the registration error and changes neither the registry, the
\* zmq.Poller nor the dispatch tasks.
C5_UnregisterUnknownFails ==
    [][\A a \in Adapters :
        (last_call'.op = "unregister" /\ last_call'.adapter = a
            /\ zmq_socket(Cur, a) \notin DOMAIN sockets)
        => /\ last_call'.exc = "AsyncZMQError"
           /\ UNCHANGED <<sockets, pollset, poll_future, tasks, orphans>>]_vars

C5_Witness ==
    /\ last_call.op = "unregister"
    /\ last_call.exc = "AsyncZMQError"
    /\ poll_future # NoTask
    /\ tasks[poll_future].state = "waiting"

\* C6: register of an adapter whose real socket is already registered changes
\* neither the registry nor the dispatch tasks.
C6_RegisterIdempotent ==
    [][\A a \in Adapters :
        (last_call'.op = "register" /\ last_call'.adapter = a /\ Registered(a))
        => /\ last_call'.exc = NoExc
           /\ UNCHANGED <<sockets, pollset, poll_future, tasks, orphans>>]_vars

\* a register call after which the current task is suspended in its wait was
\* a call on a registered adapter: a real registration leaves a scheduled task
C6_Witness ==
    /\ last_call.op = "register"
    /\ Cardinality(DOMAIN sockets) = 4
    /\ poll_future # NoTask
    /\ tasks[poll_future].state = "waiting"

\* The wait sets of the polls that are executing on worker threads
Waiting == {t \in TaskIds : tasks[t].state = "waiting"}

\* C7: at most one blocking wait is executing, so no socket is in the wait
\* set of two executing waits.
C7_OneBlockingWait ==
    /\ Cardinality(Waiting) + Len(orphans) <= 1
    /\ \A t, u \in Waiting :
          t # u => DOMAIN tasks[t].waitset \cap DOMAIN tasks[u].waitset = {}
    /\ \A t \in Waiting : \A i \in DOMAIN orphans :
          DOMAIN tasks[t].waitset \cap orphans[i] = {}

\* C8: after a failed readiness wait (the blocking one or the zero-timeout
\* re-poll) with a non-empty registry, the error has not escaped the task and
\* a new pass is scheduled.
C8_WaitErrorContained ==
    ((last_call.op = "wait_error" \/ hev.repoll_error) /\ DOMAIN sockets # {})
    => /\ last_call.exc = NoExc
       /\ \E t \in TaskIds : tasks[t].state = "scheduled"

\* a callback of adapter a raised out of the last handle_event call
RaisedIn(a) == hev.adapter = a /\ hev.exc \in {"Exception", "ZMQError"}

\* the last handle_event call served the real socket of adapter b
Served(b) == hev.adapter = b /\ hev.socket = ZmqSock(b)

FromParts(a, v) == \E m \in Range(submitted[a]) : m.depth = 1 /\ m.parts = v.parts

C10_SamePartsPassed ==
    \A a \in Adapters :
        \A v \in Range(wire[a]) \cup (IF hev.adapter = a THEN Range(hev.send_args) ELSE {}) :
            FromParts(a, v) => v \in Range(submitted[a])

\* C11: handle_event on the readable real socket of an adapter without a
\* receive callback performs no receive, so it consumes no pending message.
C11_NoReadWithoutCallback ==
    \A a \in Adapters :
        (hev.adapter = a /\ ~on_recv_callback[a])
            => <<"recv_ok", a>> \notin Range(hev.steps)

\* AIOZMQSocket.is_closed
is_closed(a) == life[a] = "closed"

\* C12: a closed adapter stays closed, and a close() of a closed adapter
\* raises nothing and changes neither the registry, the zmq.Poller nor the
\* dispatch tasks.
C12_CloseIsFinal ==
    [][\A a \in Adapters :
        is_closed(a) =>
            /\ is_closed(a)'
            /\ (last_call'.op = "close" /\ last_call'.adapter = a)
                => /\ last_call'.exc = NoExc
                   /\ UNCHANGED <<sockets, pollset, poll_future, tasks, orphans>>]_vars

\* a close call after which the current task is suspended in its wait was a
\* call on a closed adapter: a close that unregisters leaves a scheduled task
C12_Witness ==
    /\ last_call.op = "close"
    /\ last_call.exc = NoExc
    /\ is_closed(last_call.adapter)
    /\ poll_future # NoTask
    /\ tasks[poll_future].state = "waiting"

\* C13: an adapter's real socket is a key of the registry iff its wake
\* socket is, and both keys map to that adapter, also after a register or
\* unregister call that failed.
C13_RegisteredInPairs ==
    \A a \in Adapters :
        /\ ZmqSock(a) \in DOMAIN sockets <=> WakeSock(a) \in DOMAIN sockets
        /\ \A h \in {ZmqSock(a), WakeSock(a)} \cap DOMAIN sockets : sockets[h] = a

C13_Witness ==
    /\ last_call.op \in {"unregister", "close"}
    /\ last_call.exc \in {"KeyError", "AsyncZMQError"}
    /\ \E a \in Adapters : Registered(a)

\* the steps of the last handle_event call that belong to _handle_on_send
SendSteps == SelectSeq(hev.steps, LAMBDA x : x[1] \in {"pop", "send_cb", "transmit"})

\* handle_event of adapter a in this step ran _handle_on_send
SendHandled(a) == hev'.adapter = a /\ <<"pop", a>> \in Range(hev'.steps)

\* what _handle_on_send does for adapter a when nothing stops it
FullSend(a) ==
    IF on_send_callback[a] THEN <<<<"pop", a>>, <<"send_cb", a>>, <<"transmit", a>>>>
    ELSE <<<<"pop", a>>, <<"transmit", a>>>>

\* C14 as stated: a handle_event that handles a send removes the oldest
\* message only, passes it to the send callback (if one is set) before the
\* transmit, and hands it to the transmit call exactly once.
C14_PopCallTransmitOnce ==
    [][\A a \in Adapters :
        SendHandled(a) =>
            /\ send_queue'[a] = Tail(send_queue[a])
            /\ hev'.send_args = (IF on_send_callback[a] THEN <<Head(send_queue[a])>> ELSE <<>>)
            /\ hev'.handed = <<Head(send_queue[a])>>
            /\ SendSteps' = FullSend(a)]_vars

\* C14 amended: the oldest message only is removed and is not put back, the
\* send callback (if one is set) gets it before any transmit, and it is
\* handed to the transmit call at most once: not at all when the send
\* callback raised or when a callback of this handle_event call closed the
\* adapter, once otherwise.
C14_PopCallTransmitAtMostOnce ==
    [][\A a \in Adapters :
        SendHandled(a) =>
            /\ send_queue'[a] = Tail(send_queue[a])
            /\ hev'.send_args = (IF on_send_callback[a] THEN <<Head(send_queue[a])>> ELSE <<>>)
            /\ \/ /\ hev'.handed = <<Head(send_queue[a])>>
                  /\ SendSteps' = FullSend(a)
               \/ /\ hev'.handed = <<>>
                  /\ SendSteps' = SubSeq(FullSend(a), 1, Len(FullSend(a)) - 1)
                  /\ \/ on_send_callback[a] /\ hev'.exc \in {"Exception", NoExc}
                     \/ life'[a] = "closed"]_vars

\* a send callback raised: the message is gone from the queue, not transmitted
C14_Witness ==
    /\ hev.adapter = Sender
    /\ SendSteps = <<<<"pop", Sender>>, <<"send_cb", Sender>>>>
    /\ hev.exc = "Exception"
    /\ Len(submitted[Sender]) = 2
    /\ Len(send_queue[Sender]) = 1

\* C20: _handle_on_send never runs with an empty outbound queue, and one
\* handle_event call pops at most one message.
C20_PopOnlyWhenQueued ==
    [][\A a \in Adapters :
        hev'.adapter = a =>
            /\ <<"pop_empty", a>> \notin Range(hev'.steps)
            /\ Len(SelectSeq(hev'.steps, LAMBDA x : x[1] = "pop")) <= 1
            /\ SendHandled(a) =>
                    /\ Len(send_queue[a]) > 0
                    /\ Len(send_queue'[a]) = Len(send_queue[a]) - 1]_vars

\* a pass popped the one queued message while POLLOUT was still reported
C20_Witness ==
    /\ hev.adapter = Sender
    /\ <<"pop", Sender>> \in Range(hev.steps)
    /\ send_queue[Sender] = <<>>
    /\ Len(wire[Sender]) = 2

\* steps that invoke a user callback of adapter a or pop its outbound queue
UserSteps(a) == {<<"recv_cb", a>>, <<"send_cb", a>>, <<"pop", a>>}

\* C19: once close() of an adapter has run, no callback of the adapter is
\* invoked and its outbound queue is not popped: neither in the rest of the
\* handle_event call in which close ran nor in any later step.
C19_NothingAfterClose ==
    [][\A a \in Adapters :
        /\ is_closed(a) => Range(hev'.steps) \cap UserSteps(a) = {}
        /\ \A i, j \in DOMAIN hev'.steps :
              (i < j /\ hev'.steps[i] = <<"close", a>>) => hev'.steps[j] \notin UserSteps(a)]_vars

\* this step ran reregister_sockets last: the first step of a task up to its
\* wait, or a pass that handled an event without an exception
FlagsComputed ==
    \/ \E t \in TaskIds : tasks[t].state = "scheduled" /\ tasks'[t].state = "waiting"
    \/ hev'.adapter # "-" /\ hev'.exc = NoExc

\* C15: whenever the dispatch loop has computed the interest flags, every
\* registered socket has 'readable', a real socket has 'writable' iff the
\* queue of its adapter is non-empty, and a wake socket never has 'writable'.
C15_FlagsFollowQueue ==
    [][FlagsComputed =>
        \A h \in DOMAIN sockets' :
            /\ h \in DOMAIN pollset'
            /\ POLLIN \in pollset'[h]
            /\ POLLOUT \in pollset'[h]
                  <=> (h[1] = "zmq" /\ Len(send_queue'[sockets'[h]]) > 0)]_vars

C15_Witness ==
    /\ hev.adapter = Sender
    /\ hev.exc = NoExc
    /\ Len(send_queue[Sender]) > 0
    /\ Registered(Sender)
    /\ pollset[ZmqSock(Sender)] = {POLLIN, POLLOUT}
    /\ pollset[WakeSock(Sender)] = {POLLIN}

\* this step is a send() on adapter a
SendCalled(a) == Len(submitted'[a]) = Len(submitted[a]) + 1

\* this step handled a wake-channel event of adapter a
WakeHandled(a) == hev'.socket = WakeSock(a) /\ POLLIN \in hev'.event

\* C16: a send adds one notification to the adapter's wake channel; a
\* handle_event for its wake channel removes one, raises nothing, invokes no
\* callback and pops nothing; no other step of an open adapter changes the
\* number of notifications, which is never negative.
C16_WakeCounts ==
    [][\A a \in Adapters :
        /\ SendCalled(a) => wake_buf'[a] = wake_buf[a] + 1
        /\ WakeHandled(a) =>
              /\ wake_buf'[a] = wake_buf[a] - 1
              /\ hev'.steps = <<<<"drain", a>>>>
              /\ hev'.exc = NoExc
              /\ hev'.recv_args = <<>> /\ hev'.send_args = <<>>
              /\ send_queue'[a] = send_queue[a]
        /\ (~SendCalled(a) /\ ~WakeHandled(a) /\ life'[a] = "open")
              => wake_buf'[a] = wake_buf[a]
        /\ wake_buf'[a] >= 0]_vars

\* this step removed adapter a from the registry
Unregistered(a) == ZmqSock(a) \in DOMAIN sockets /\ ZmqSock(a) \notin DOMAIN sockets'

\* C17: while the registry is empty no dispatch task is live; an unregister
\* that leaves other adapters registered leaves exactly one task scheduled,
\* the current one, and no other task live.
C17_RestartOnlyIfOthersRemain ==
    [][/\ DOMAIN sockets' = {} => \A t \in TaskIds : ~Live(t)'
       /\ \A a \in Adapters :
            (Unregistered(a) /\ DOMAIN sockets' # {}) =>
                /\ poll_future' # NoTask
                /\ \A t \in TaskIds : Live(t)' <=> t = poll_future'
                /\ tasks'[poll_future'].state = "scheduled"]_vars

\* the messages given to send on adapter a that have left its queue
Popped(a) == Len(submitted[a]) - Len(send_queue[a])

====
